---- MODULE Spec2Model ----
(***************************************************************************)
(* Model of the s3-backup service (package internal/s3): one Service with  *)
(* its immutable configuration, the stop channel guarded by stopOnce, the  *)
(* cron driver started by Start, and the backup passes run by Backup       *)
(* (collectAllFiles, then backupAllFiles).                                 *)
(*                                                                         *)
(* Go strings are sequences of one-character strings, so that the path and *)
(* key functions (filepath.Rel, filepath.Base, filepath.Join,              *)
(* strings.HasPrefix, time.Format, fmt.Sprintf) are computed, not assumed. *)
(* An error value is the sequence of its leaf errors: nil is <<>>,         *)
(* errors.Join concatenates, fmt.Errorf("%w") keeps the leaves, and        *)
(* errors.Is is membership of a leaf kind.                                 *)
(***************************************************************************)
EXTENDS Integers, Sequences, FiniteSets, TLC

VARIABLES backupDirs, recursive, cronSchedule,
          stopChClosed, stopOnceDone, closeCount, panicked, stopCalls,
          ctxDone, now, cronRunning, startPc, pass, objects,
          unreadable, unopenable, rejected,
          cfgCronSchedule, mainPc, exitCode,
          cfg, newResult,
          keyCalls, removed, startCalls

vars == <<backupDirs, recursive, cronSchedule,
          stopChClosed, stopOnceDone, closeCount, panicked, stopCalls,
          ctxDone, now, cronRunning, startPc, pass, objects,
          unreadable, unopenable, rejected,
          cfgCronSchedule, mainPc, exitCode,
          cfg, newResult,
          keyCalls, removed, startCalls>>

svcVars == <<backupDirs, recursive, cronSchedule>>
stopVars == <<stopChClosed, stopOnceDone, closeCount, panicked, stopCalls>>
envVars == <<unreadable, unopenable, rejected>>
mainVars == <<cfgCronSchedule, mainPc, exitCode>>
ctorVars == <<cfg, newResult>>

(* ------------------------------ bounds --------------------------------- *)
MaxPasses == 1
MaxTicks == 1
MaxStopCalls == 2
MaxJobReturns == 1
MaxDirs == 2
MaxKeyCalls == 2
MaxRemovals == 1
MaxStarts == 2

Passes == 1..MaxPasses

\* The goroutines that can run a pass: those of Passes are started by the
\* callers and the cron driver, one more is there for a call that overlaps
\* them.
AllPasses == 1..(MaxPasses + 1)

(* ------------------------------ strings -------------------------------- *)
Slash == "/"
Dot == "."
DotDot == <<".", ".">>

\* strings.HasPrefix(s, prefix)
HasPrefix(s, prefix) ==
    /\ Len(s) >= Len(prefix)
    /\ SubSeq(s, 1, Len(prefix)) = prefix

\* The elements of a cleaned absolute path, in order ("/a/s" -> <<"a","s">>).
RECURSIVE SplitFrom(_, _, _)
SplitFrom(s, i, cur) ==
    IF i > Len(s) THEN <<cur>>
    ELSE IF s[i] = Slash THEN <<cur>> \o SplitFrom(s, i + 1, <<>>)
    ELSE SplitFrom(s, i + 1, Append(cur, s[i]))

Components(p) == IF p = <<>> \/ p = <<Slash>> THEN <<>> ELSE Tail(SplitFrom(p, 1, <<>>))

\* Elements joined by the separator, without a leading separator.
RECURSIVE JoinElems(_)
JoinElems(cs) ==
    IF cs = <<>> THEN <<>>
    ELSE IF Len(cs) = 1 THEN cs[1]
    ELSE cs[1] \o <<Slash>> \o JoinElems(Tail(cs))

RECURSIVE CommonLen(_, _)
CommonLen(a, b) ==
    IF a = <<>> \/ b = <<>> \/ Head(a) # Head(b) THEN 0
    ELSE 1 + CommonLen(Tail(a), Tail(b))

\* filepath.Rel(basepath, targpath) for two cleaned absolute paths (for
\* which it returns no error): "." when equal, otherwise one ".." for every
\* element of basepath below the common prefix, then the rest of targpath.
Rel(basepath, targpath) ==
    LET bc == Components(basepath)
        tc == Components(targpath)
        n == CommonLen(bc, tc)
    IN IF bc = tc THEN <<Dot>>
       ELSE JoinElems([i \in 1..(Len(bc) - n) |-> DotDot] \o SubSeq(tc, n + 1, Len(tc)))

\* filepath.Base(path): the last element.
Base(p) ==
    IF p = <<>> THEN <<Dot>>
    ELSE LET cs == Components(p) IN IF cs = <<>> THEN <<Slash>> ELSE cs[Len(cs)]

\* filepath.Join(baseDir, relPath) for a single element baseDir and a cleaned
\* relPath that does not climb: Clean(baseDir + "/" + relPath).
Join(baseDir, relPath) ==
    IF relPath = <<Dot>> THEN baseDir ELSE baseDir \o <<Slash>> \o relPath

(* ------------------------------- time ---------------------------------- *)
\* The clock counts seconds from 2025-01-01T00:00:00; it starts at StartTime.
StartTime == 59

Digit(n) == <<"0", "1", "2", "3", "4", "5", "6", "7", "8", "9">>[n + 1]
TwoDigits(n) == <<Digit((n \div 10) % 10), Digit(n % 10)>>

\* A time.Time is [sec, nsec]: whole seconds since 2025-01-01T00:00:00 and
\* the nanoseconds within the second.
TimeAt(sec) == [sec |-> sec, nsec |-> 0]

\* Format, had the layout been RFC 3339's, with colons in the time.
FormatWithColons(t) ==
    LET day == t.sec \div 86400
        sec == t.sec % 86400
    IN <<"2", "0", "2", "5", "-", "0", "1", "-">> \o TwoDigits(day + 1) \o <<"T">>
       \o TwoDigits(sec \div 3600) \o <<":">> \o TwoDigits((sec \div 60) % 60)
       \o <<":">> \o TwoDigits(sec % 60)

\* ts.Format("2006-01-02T15-04-05"), for instants of January 2025.  The
\* layout has no fraction of a second: the nanoseconds are dropped.
Format(t) ==
    LET day == t.sec \div 86400
        sec == t.sec % 86400
    IN <<"2", "0", "2", "5", "-", "0", "1", "-">> \o TwoDigits(day + 1) \o <<"T">>
       \o TwoDigits(sec \div 3600) \o <<"-">> \o TwoDigits((sec \div 60) % 60)
       \o <<"-">> \o TwoDigits(sec % 60)

TimestampLen == 19

\* buildObjectKey, had it kept only the last element of fn.
buildObjectKeyBaseOnly(fn, ts) == Format(ts) \o <<Slash>> \o Base(fn)

\* buildObjectKey(fn, ts) == fmt.Sprintf("%s/%s", ts.Format(...), fn)
buildObjectKey(fn, ts) == Format(ts) \o <<Slash>> \o fn

(* ---------------------------- filesystem ------------------------------- *)
\* The local tree:  /a/f  /a/s/g  /b/f  /c   (a, s, b, c directories, c
\* empty; f, g files).
DirA == <<"/", "a">>
DirC == <<"/", "c">>
DirAS == <<"/", "a", "/", "s">>
DirB == <<"/", "b">>
FileAF == <<"/", "a", "/", "f">>
FileASG == <<"/", "a", "/", "s", "/", "g">>
FileBF == <<"/", "b", "/", "f">>

\* A deeper tree:  /t/f1  /t/f2  /t/u/g  /t/u/v/h  /t/w   (w empty), and a
\* second directory named a:  /x/a/f.
DirT == <<"/", "t">>
DirTU == <<"/", "t", "/", "u">>
DirTUV == <<"/", "t", "/", "u", "/", "v">>
DirTW == <<"/", "t", "/", "w">>
FileTF1 == <<"/", "t", "/", "f", "1">>
FileTF2 == <<"/", "t", "/", "f", "2">>
FileTUG == <<"/", "t", "/", "u", "/", "g">>
FileTUVH == <<"/", "t", "/", "u", "/", "v", "/", "h">>
DirX == <<"/", "x">>
DirXA == <<"/", "x", "/", "a">>
FileXAF == <<"/", "x", "/", "a", "/", "f">>

\* A directory holding a file whose name begins with two dots:  /d/..c  /d/e.
DirD == <<"/", "d">>
FileDDotsC == <<"/", "d", "/", ".", ".", "c">>
FileDE == <<"/", "d", "/", "e">>

Dirs == {DirA, DirAS, DirB, DirC, DirT, DirTU, DirTUV, DirTW, DirX, DirXA, DirD}
Files == {FileAF, FileASG, FileBF, FileTF1, FileTF2, FileTUG, FileTUVH, FileXAF,
          FileDDotsC, FileDE}

\* os.ReadDir(dir): the entries of dir, sorted by name.
ReadDir(dir) ==
    IF dir = DirA THEN <<FileAF, DirAS>>
    ELSE IF dir = DirAS THEN <<FileASG>>
    ELSE IF dir = DirB THEN <<FileBF>>
    ELSE IF dir = DirT THEN <<FileTF1, FileTF2, DirTU, DirTW>>
    ELSE IF dir = DirTU THEN <<FileTUG, DirTUV>>
    ELSE IF dir = DirTUV THEN <<FileTUVH>>
    ELSE IF dir = DirX THEN <<DirXA>>
    ELSE IF dir = DirXA THEN <<FileXAF>>
    ELSE IF dir = DirD THEN <<FileDDotsC, FileDE>>
    ELSE <<>>

\* f lies below dir, at any depth.
Below(dir, f) ==
    /\ Len(Components(f)) > Len(Components(dir))
    /\ SubSeq(Components(f), 1, Len(Components(dir))) = Components(dir)

\* A path exists when the tree has it and neither it nor a directory above
\* it has been removed.
Exists(path) ==
    /\ path \in Dirs \cup Files
    /\ \A d \in removed : path # d /\ ~Below(d, path)
IsDir(path) == path \in Dirs

\* A path that does not exist, and one below a directory that may not be
\* searched.
Missing == <<"/", "n">>
Denied == <<"/", "p", "/", "x">>

\* os.Stat(path): "" for nil, otherwise the kind of the error.
Stat(path) ==
    IF path = Denied THEN "ErrPermission"
    ELSE IF ~Exists(path) THEN "ErrNotExist"
    ELSE ""

(* ------------------------------ errors --------------------------------- *)
ErrLeaf(kind, subject) == [kind |-> kind, subject |-> subject]

\* errors.Join(a, b)
ErrJoin(a, b) == a \o b

\* errors.Is(err, kind)
ErrIs(err, kind) == \E i \in 1..Len(err) : err[i].kind = kind

\* number of leaf failures carried by err
ErrCount(err) == Len(err)

(* ----------------------------- schedules ------------------------------- *)
\* A schedule expression is the sequence of its space-separated fields.
ValidSchedule == <<"*/5", "*", "*", "*", "*">>
InvalidSchedules == {<<"invalid", "schedule">>, <<"*", "*", "*", "*", "*", "*", "*">>}
CronFields == {"*", "*/5", "*/3", "0", "2"}

\* config.DefaultCronSchedule = "0 0 */3 * *"
DefaultCronSchedule == <<"0", "0", "*/3", "*", "*">>

\* Config.GetCronSchedule: the configured expression, the default when it is
\* empty.
GetCronSchedule(configured) ==
    IF configured = <<>> THEN DefaultCronSchedule ELSE configured

\* ParseOK, had the parse error been ignored.
ParseOKAlways(schedule) == TRUE

\* cron.New().AddFunc(schedule, ...) with the standard parser: five fields.
ParseOK(schedule) ==
    /\ Len(schedule) = 5
    /\ \A i \in 1..Len(schedule) : schedule[i] \in CronFields

(* ------------------------------- Init ---------------------------------- *)
DirLists == {<<>>, <<DirC>>, <<DirA, DirB>>}

\* validateDirectories, had it gone through the whole list and returned the
\* last violation.
RECURSIVE validateDirectoriesLast(_)
validateDirectoriesLast(dirs) ==
    IF dirs = <<>> THEN [err |-> <<>>, stats |-> <<>>]
    ELSE LET dir == Head(dirs)
             rest == validateDirectoriesLast(Tail(dirs))
             here == IF dir = <<>> THEN <<ErrLeaf("ErrEmptyDirectory", <<>>)>>
                     ELSE IF Stat(dir) = "ErrNotExist" THEN <<ErrLeaf("ErrDirectoryNotFound", dir)>>
                     ELSE IF Stat(dir) # "" THEN <<ErrLeaf(Stat(dir), dir)>>
                     ELSE IF ~IsDir(dir) THEN <<ErrLeaf("ErrNotADirectory", dir)>>
                     ELSE <<>>
         IN [err |-> IF rest.err # <<>> THEN rest.err ELSE here,
             stats |-> (IF dir = <<>> THEN <<>> ELSE <<dir>>) \o rest.stats]

\* validateDirectories(dirs): the paths in order; the first violation is
\* returned at once.  err is the returned error (nil is <<>>), stats the
\* paths handed to os.Stat.
RECURSIVE validateDirectories(_)
validateDirectories(dirs) ==
    IF dirs = <<>> THEN [err |-> <<>>, stats |-> <<>>]
    ELSE LET dir == Head(dirs)
             rest == validateDirectories(Tail(dirs))
         IN IF dir = <<>>
            THEN [err |-> <<ErrLeaf("ErrEmptyDirectory", <<>>)>>, stats |-> <<>>]
            ELSE IF Stat(dir) = "ErrNotExist"
            THEN [err |-> <<ErrLeaf("ErrDirectoryNotFound", dir)>>, stats |-> <<dir>>]
            ELSE IF Stat(dir) # ""
            THEN [err |-> <<ErrLeaf(Stat(dir), dir)>>, stats |-> <<dir>>]
            ELSE IF ~IsDir(dir)
            THEN [err |-> <<ErrLeaf("ErrNotADirectory", dir)>>, stats |-> <<dir>>]
            ELSE [err |-> rest.err, stats |-> <<dir>> \o rest.stats]

\* What the surroundings do to a pass: directories that cannot be read, files
\* that cannot be opened, and files whose PutObject the storage client rejects.
Environments ==
    {[unreadable |-> {}, unopenable |-> {}, rejected |-> {}],
     [unreadable |-> {DirB}, unopenable |-> {}, rejected |-> {}],
     [unreadable |-> {DirB}, unopenable |-> {FileAF}, rejected |-> {}],
     [unreadable |-> {}, unopenable |-> {FileAF}, rejected |-> {FileBF}]}

IdlePass == [pc |-> "idle", origin |-> "none", cancelAtBegin |-> FALSE,
             removedAtBegin |-> {},
             dirIdx |-> 1, stack |-> <<>>, cfiles |-> <<>>,
             allFiles |-> <<>>, roots |-> <<>>, collErrs |-> <<>>,
             fileIdx |-> 1, upErrs |-> <<>>, inflight |-> <<>>,
             log |-> <<>>, result |-> <<>>, jobLog |-> <<>>,
             dirResults |-> <<>>]

\* Everything but the fields of the Service and the configuration.
InitRuntime ==
    /\ stopChClosed = FALSE
    /\ stopOnceDone = FALSE
    /\ closeCount = 0
    /\ panicked = FALSE
    /\ stopCalls = 0
    /\ ctxDone = FALSE
    /\ now = StartTime
    /\ cronRunning = FALSE
    /\ startPc = "idle"
    /\ pass = [p \in AllPasses |-> IdlePass]
    /\ objects = <<>>
    /\ \E env \in Environments :
          /\ unreadable = env.unreadable
          /\ unopenable = env.unopenable
          /\ rejected = env.rejected
    /\ keyCalls = <<>>
    /\ removed = {}
    /\ startCalls = 0

\* The state after NewS3Service has returned a Service, but for the schedule.
InitService ==
    /\ InitRuntime
    /\ backupDirs \in {d \in DirLists : validateDirectories(d).err = <<>>}
    /\ recursive \in BOOLEAN
    /\ cfg = [isNil |-> FALSE, awsOK |-> TRUE, dirs |-> backupDirs, recursive |-> recursive]
    /\ newResult = [svc |-> "built", err |-> <<>>, stats |-> backupDirs]

\* A Service built by a caller of the package from a configuration with a
\* schedule; main is not involved.
Init ==
    /\ InitService
    /\ cronSchedule \in {ValidSchedule} \cup InvalidSchedules
    /\ cfgCronSchedule = cronSchedule
    /\ mainPc = "none"
    /\ exitCode = "none"

(* --------------------------- key building ------------------------------ *)
\* Service.buildS3Key: the first configured directory that filePath does not
\* climb out of gives the key baseName/relPath; ok is FALSE when none does.
RECURSIVE buildS3KeyFrom(_, _)
buildS3KeyFrom(dirs, filePath) ==
    IF dirs = <<>> THEN [ok |-> FALSE, key |-> <<>>]
    ELSE LET relPath == Rel(Head(dirs), filePath)
         IN IF HasPrefix(relPath, DotDot)
            THEN buildS3KeyFrom(Tail(dirs), filePath)
            ELSE [ok |-> TRUE, key |-> Join(Base(Head(dirs)), relPath)]

buildS3Key(filePath) == buildS3KeyFrom(backupDirs, filePath)

(* ------------------------- one backup pass ----------------------------- *)
Canceled == ErrLeaf("Canceled", <<>>)

\* The pass returns err to the caller of Backup.
Finished(r, err) == [r EXCEPT !.pc = "done", !.result = err]

\* EnterUpload, had an empty list been reported as an error.
EnterUploadEmptyIsError(r) ==
    IF Len(r.allFiles) = 0 THEN Finished(r, <<ErrLeaf("NoFiles", <<>>)>>)
    ELSE [r EXCEPT !.pc = "upload", !.fileIdx = 1]

\* backupAllFiles, entry: an empty list returns nil at once.
EnterUpload(r) ==
    IF Len(r.allFiles) = 0 THEN Finished(r, <<>>)
    ELSE [r EXCEPT !.pc = "upload", !.fileIdx = 1]

\* collectAllFiles returns after its loop, and Backup acts on the result:
\* a non-nil collection error is returned before backupAllFiles is called.
collectAllFilesReturn(r) ==
    IF r.collErrs # <<>> THEN Finished(r, r.collErrs) ELSE EnterUpload(r)

\* The for loop of collectAllFiles moves to the next directory.
NextDir(r) ==
    LET r2 == [r EXCEPT !.pc = "collect", !.dirIdx = @ + 1,
                        !.stack = <<>>, !.cfiles = <<>>]
    IN IF r2.dirIdx > Len(backupDirs) THEN collectAllFilesReturn(r2) ELSE r2

\* filesIsNil, had the collector started from a nil slice.
filesIsNilWhenEmpty(files) == Len(files) = 0

\* collector.files is made by make([]string, 0) and only appended to: the
\* slice collectFilesFromDir returns on success is never nil.
filesIsNil(files) == FALSE

\* DirFailed, had collectAllFiles returned at the first failing directory.
DirFailedAborts(r, leaf) ==
    Finished([r EXCEPT !.collErrs = ErrJoin(@, <<leaf>>),
                       !.dirResults = Append(@, [dir |-> backupDirs[r.dirIdx],
                                                 isNil |-> TRUE, files |-> <<>>,
                                                 err |-> <<leaf>>,
                                                 seen |-> Len(r.cfiles),
                                                 walked |-> r.pc = "walk"])],
             ErrJoin(r.collErrs, <<leaf>>))

\* collectFilesFromDir failed for the current directory: join and continue.
\* dirResults remembers what every call of collectFilesFromDir returned: the
\* list (isNil for a nil slice), the error, how many files the collector held
\* (seen), and whether WalkDir was called.
DirFailed(r, leaf) ==
    NextDir([r EXCEPT !.collErrs = ErrJoin(@, <<leaf>>),
                      !.dirResults = Append(@, [dir |-> backupDirs[r.dirIdx],
                                                isNil |-> TRUE, files |-> <<>>,
                                                err |-> <<leaf>>,
                                                seen |-> Len(r.cfiles),
                                                walked |-> r.pc = "walk"])])

\* collectFilesFromDir returned collector.files: append and continue.  roots
\* remembers, for every entry of allFiles, the directory whose walk found it
\* (the code keeps the paths only).
DirCollected(r) ==
    NextDir([r EXCEPT !.allFiles = @ \o r.cfiles,
                      !.roots = @ \o [i \in 1..Len(r.cfiles) |-> backupDirs[r.dirIdx]],
                      !.dirResults = Append(@, [dir |-> backupDirs[r.dirIdx],
                                                isNil |-> filesIsNil(r.cfiles),
                                                files |-> r.cfiles,
                                                err |-> <<>>,
                                                seen |-> Len(r.cfiles),
                                                walked |-> TRUE])])

\* The cancellation checks, had the select been left out.
collectCtxCheckMissing(done) == FALSE
uploadCtxCheckMissing(done) == FALSE
walkCtxCheckMissing(done) == FALSE
jobCtxCheckMissing(done) == FALSE

\* The select on ctx.Done() at the head of each loop and of walk.
collectCtxCheck(done) == done
walkCtxCheck(done) == done
uploadCtxCheck(done) == done
jobCtxCheck(done) == done

\* Backup(ctx) is entered by pass p, called directly or by the cron job.
BeginPass(p, origin) ==
    LET r == [IdlePass EXCEPT !.pc = "collect", !.origin = origin,
                              !.cancelAtBegin = ctxDone,
                              !.removedAtBegin = removed,
                              !.jobLog = pass[p].jobLog]
    IN pass' = [pass EXCEPT ![p] = IF Len(backupDirs) = 0
                                   THEN collectAllFilesReturn(r) ELSE r]

FreePass(p) ==
    /\ pass[p].pc = "idle"
    /\ \A q \in Passes : q < p => pass[q].pc # "idle"

\* A direct call of Service.Backup (the one-time backup of main).
Backup(p) ==
    /\ FreePass(p)
    /\ BeginPass(p, "direct")
    /\ UNCHANGED <<svcVars, mainVars, ctorVars, keyCalls, removed, startCalls, stopVars, envVars, ctxDone, now, cronRunning, startPc, objects>>

\* One iteration of the loop of collectAllFiles, up to the call of WalkDir.
CollectNext(p) ==
    LET r == pass[p]
        dir == backupDirs[r.dirIdx]
    IN /\ r.pc = "collect"
       /\ pass' = [pass EXCEPT ![p] =
             IF collectCtxCheck(ctxDone)
             THEN Finished([r EXCEPT !.allFiles = <<>>, !.roots = <<>>], <<Canceled>>)
             ELSE IF dir = <<>>
             THEN DirFailed(r, ErrLeaf("ErrEmptyDirectory", dir))
             ELSE [r EXCEPT !.pc = "walk", !.cfiles = <<>>,
                            !.stack = <<[path |-> dir,
                                         err |-> IF Exists(dir) THEN "" ELSE "ErrNotExist"]>>]]
       /\ UNCHANGED <<svcVars, mainVars, ctorVars, keyCalls, removed, startCalls, stopVars, envVars, ctxDone, now, cronRunning, startPc, objects>>

\* SkipDir, had walk descended into every directory.
SkipDirNever(rec, path, root) == FALSE

\* fileCollector.walk on a directory: fs.SkipDir unless the collector is
\* recursive or the directory is the root of the walk.
SkipDir(rec, path, root) == ~rec /\ path # root

\* filepath.WalkDir calls fileCollector.walk on the next entry.
WalkStep(p) ==
    LET r == pass[p]
        e == Head(r.stack)
        rest == Tail(r.stack)
        dir == backupDirs[r.dirIdx]
        continue(r2) == IF r2.stack = <<>> THEN DirCollected(r2) ELSE r2
    IN /\ r.pc = "walk"
       /\ pass' = [pass EXCEPT ![p] =
             IF walkCtxCheck(ctxDone) THEN DirFailed(r, Canceled)
             ELSE IF e.err # "" THEN DirFailed(r, ErrLeaf(e.err, e.path))
             ELSE IF IsDir(e.path)
             THEN IF SkipDir(recursive, e.path, dir)
                  THEN continue([r EXCEPT !.stack = rest])
                  ELSE IF e.path \in unreadable \/ ~Exists(e.path)
                  THEN [r EXCEPT !.stack =
                           <<[path |-> e.path,
                              err |-> IF Exists(e.path) THEN "ErrPermission"
                                      ELSE "ErrNotExist"]>> \o rest]
                  ELSE continue([r EXCEPT !.stack =
                           [i \in 1..Len(ReadDir(e.path)) |->
                               [path |-> ReadDir(e.path)[i], err |-> ""]] \o rest])
             ELSE continue([r EXCEPT !.cfiles = Append(@, e.path), !.stack = rest])]
       /\ UNCHANGED <<svcVars, mainVars, ctorVars, keyCalls, removed, startCalls, stopVars, envVars, ctxDone, now, cronRunning, startPc, objects>>

\* AfterAttempt, had the error aggregate been one for all the passes of the
\* Service instead of a local variable of backupAllFiles.
AfterAttemptSharedErrs(r, res, key, err) ==
    LET others == {q \in AllPasses : pass[q].pc \in {"upload", "put", "done"} /\ pass[q] # r}
        shared == IF others = {} THEN r.upErrs
                  ELSE ErrJoin(pass[CHOOSE q \in others : TRUE].upErrs, r.upErrs)
        r2 == [r EXCEPT !.pc = "upload", !.inflight = <<>>,
                        !.log = Append(@, [file |-> r.allFiles[r.fileIdx],
                                           key |-> key, res |-> res]),
                        !.upErrs = ErrJoin(shared, err),
                        !.fileIdx = @ + 1]
    IN IF r2.fileIdx > Len(r2.allFiles) THEN Finished(r2, r2.upErrs) ELSE r2

\* AfterAttempt, had backupAllFiles returned at the first failing file.
AfterAttemptAbortOnError(r, res, key, err) ==
    LET r2 == [r EXCEPT !.pc = "upload", !.inflight = <<>>,
                        !.log = Append(@, [file |-> r.allFiles[r.fileIdx],
                                           key |-> key, res |-> res]),
                        !.upErrs = ErrJoin(@, err),
                        !.fileIdx = @ + 1]
    IN IF err # <<>> \/ r2.fileIdx > Len(r2.allFiles)
       THEN Finished(r2, r2.upErrs) ELSE r2

\* backupFile returned for the current file: record the attempt, join its
\* error if any, and go on with the next file; after the last file
\* backupAllFiles returns the joined errors.
AfterAttempt(r, res, key, err) ==
    LET r2 == [r EXCEPT !.pc = "upload", !.inflight = <<>>,
                        !.log = Append(@, [file |-> r.allFiles[r.fileIdx],
                                           key |-> key, res |-> res]),
                        !.upErrs = ErrJoin(@, err),
                        !.fileIdx = @ + 1]
    IN IF r2.fileIdx > Len(r2.allFiles) THEN Finished(r2, r2.upErrs) ELSE r2

\* uploadCancelled, had the failures joined so far been returned with the
\* cancellation.
uploadCancelledJoined(r) == Finished(r, ErrJoin(r.upErrs, <<Canceled>>))

\* The select of the loop of backupAllFiles has seen ctx.Done(): the
\* function returns ctx.Err() wrapped, and joinedErrs goes out of scope.
uploadCancelled(r) == Finished(r, <<Canceled>>)

\* One iteration of the loop of backupAllFiles, up to the call of PutObject.
UploadNext(p) ==
    LET r == pass[p]
        file == r.allFiles[r.fileIdx]
        k == buildS3Key(file)
    IN /\ r.pc = "upload"
       /\ pass' = [pass EXCEPT ![p] =
             IF uploadCtxCheck(ctxDone) THEN uploadCancelled(r)
             ELSE IF file = <<>>
             THEN AfterAttempt(r, "empty_name", <<>>, <<ErrLeaf("ErrEmptyFilename", file)>>)
             ELSE IF ~Exists(file)
             THEN AfterAttempt(r, "open_failed", <<>>, <<ErrLeaf("ErrNotExist", file)>>)
             ELSE IF file \in unopenable
             THEN AfterAttempt(r, "open_failed", <<>>, <<ErrLeaf("ErrPermission", file)>>)
             ELSE IF ~k.ok
             THEN AfterAttempt(r, "no_key", <<>>, <<ErrLeaf("NoBackupDir", file)>>)
             ELSE [r EXCEPT !.pc = "put", !.inflight = buildObjectKey(k.key, TimeAt(now))]]
       /\ UNCHANGED <<svcVars, mainVars, ctorVars, keyCalls, removed, startCalls, stopVars, envVars, ctxDone, now, cronRunning, startPc, objects>>

\* What the storage client can answer to a PutObject(ctx, ...) in flight: it
\* stores the object or rejects it, and it may give up with the context's
\* error once the context it was handed is cancelled.
PutOutcomes(file, done) ==
    (IF file \in rejected THEN {"rejected"} ELSE {"ok"})
      \cup (IF done THEN {"aborted"} ELSE {})

\* client.PutObject returns to backupFile.
PutReturn(p) ==
    LET r == pass[p]
        file == r.allFiles[r.fileIdx]
    IN /\ r.pc = "put"
       /\ \E res \in PutOutcomes(file, ctxDone) :
            /\ pass' = [pass EXCEPT ![p] =
                  AfterAttempt(r, res, r.inflight,
                      IF res = "ok" THEN <<>>
                      ELSE IF res = "rejected" THEN <<ErrLeaf("PutFailed", file)>>
                      ELSE <<ErrLeaf("Canceled", file)>>)]
            /\ objects' = IF res = "ok" THEN (r.inflight :> file) @@ objects ELSE objects
       /\ UNCHANGED <<svcVars, mainVars, ctorVars, keyCalls, removed, startCalls, stopVars, envVars, ctxDone, now, cronRunning, startPc>>

(* --------------------------- environment ------------------------------- *)
\* The context handed to Backup and Start is cancelled.
Cancel ==
    /\ ~ctxDone
    /\ ctxDone' = TRUE
    /\ UNCHANGED <<svcVars, mainVars, ctorVars, keyCalls, removed, startCalls, stopVars, envVars, now, cronRunning, startPc, pass, objects>>

\* A second of wall-clock time elapses.
Tick ==
    /\ now < StartTime + MaxTicks
    /\ now' = now + 1
    /\ UNCHANGED <<svcVars, mainVars, ctorVars, keyCalls, removed, startCalls, stopVars, envVars, ctxDone, cronRunning, startPc, pass, objects>>

(* ----------------------------- scheduler ------------------------------- *)
\* Service.Start up to its select: AddFunc parses the schedule; an invalid
\* one returns the error, a valid one starts the cron driver.
StartBody ==
    /\ startPc = "idle"
    /\ startCalls' = startCalls + 1
    /\ IF ParseOK(cronSchedule)
       THEN cronRunning' = TRUE /\ startPc' = "blocked"
       ELSE cronRunning' = cronRunning /\ startPc' = "failed"

Start ==
    /\ StartBody
    /\ UNCHANGED <<svcVars, mainVars, ctorVars, keyCalls, removed, stopVars, envVars, ctxDone, now, pass, objects>>

\* The running cron driver fires the job: it skips when the context is
\* already cancelled and runs Backup otherwise.
CronFire(p) ==
    /\ cronRunning
    /\ FreePass(p)
    /\ IF jobCtxCheck(ctxDone) THEN pass' = pass ELSE BeginPass(p, "cron")
    /\ UNCHANGED <<svcVars, mainVars, ctorVars, keyCalls, removed, startCalls, stopVars, envVars, ctxDone, now, cronRunning, startPc, objects>>

\* JobReturn, had the job stopped the cron driver after a failed pass.
JobReturnStopsOnError(p) ==
    /\ pass[p].origin = "cron"
    /\ pass[p].pc = "done"
    /\ Len(pass[p].jobLog) < MaxJobReturns
    /\ pass' = [pass EXCEPT ![p] =
                   [IdlePass EXCEPT !.jobLog = Append(pass[p].jobLog, pass[p].result)]]
    /\ cronRunning' = (cronRunning /\ pass[p].result = <<>>)
    /\ UNCHANGED <<svcVars, mainVars, ctorVars, keyCalls, removed, startCalls, stopVars, envVars, ctxDone, now, startPc, objects>>

\* Backup has returned to the job closure fired by the cron driver: the
\* closure logs the result (an error or the completion) and returns, which
\* ends the goroutine of this firing.  jobLog keeps what was logged.
JobReturn(p) ==
    /\ pass[p].origin = "cron"
    /\ pass[p].pc = "done"
    /\ Len(pass[p].jobLog) < MaxJobReturns
    /\ pass' = [pass EXCEPT ![p] =
                   [IdlePass EXCEPT !.jobLog = Append(pass[p].jobLog, pass[p].result)]]
    /\ UNCHANGED <<svcVars, mainVars, ctorVars, keyCalls, removed, startCalls, stopVars, envVars, ctxDone, now, cronRunning, startPc, objects>>

\* WakeCond, had the select of Start waited for the stop channel only.
WakeCondStopOnly == stopChClosed

\* The two cases of the select of Start: <-s.stopCh and <-ctx.Done().
WakeCond == stopChClosed \/ ctxDone

\* The value Start has returned: nil after the drain, the parse error of an
\* invalid schedule; "none" while it has not returned.
StartResult ==
    IF startPc = "returned" THEN <<>>
    ELSE IF startPc = "failed" THEN <<ErrLeaf("InvalidSchedule", cronSchedule)>>
    ELSE "none"

\* The select of Start wakes on the stop channel or on ctx.Done(), and
\* c.Stop() stops the driver.
StartWake ==
    /\ startPc = "blocked"
    /\ WakeCond
    /\ cronRunning' = FALSE
    /\ startPc' = "draining"
    /\ UNCHANGED <<svcVars, mainVars, ctorVars, keyCalls, removed, startCalls, stopVars, envVars, ctxDone, now, pass, objects>>

\* Drained, had Start returned right after c.Stop() without waiting.
DrainedNoWait == TRUE

\* The context returned by c.Stop() is done when no job is running.
Drained == \A p \in Passes : pass[p].origin = "cron" => pass[p].pc = "done"

\* <-shutdownCtx.Done() and return nil.
StartReturn ==
    /\ startPc = "draining"
    /\ Drained
    /\ startPc' = "returned"
    /\ UNCHANGED <<svcVars, mainVars, ctorVars, keyCalls, removed, startCalls, stopVars, envVars, ctxDone, now, cronRunning, pass, objects>>

\* StopBody, had Stop closed the channel without stopOnce.
StopBodyNoOnce ==
    /\ stopOnceDone' = stopOnceDone
    /\ closeCount' = IF stopChClosed THEN closeCount ELSE closeCount + 1
    /\ stopChClosed' = TRUE
    /\ panicked' = (panicked \/ stopChClosed)

\* The body run by Service.Stop: stopOnce.Do(close(stopCh)).  Closing a
\* closed channel panics.
StopBody ==
    IF stopOnceDone
    THEN UNCHANGED <<stopChClosed, stopOnceDone, closeCount, panicked>>
    ELSE /\ stopOnceDone' = TRUE
         /\ closeCount' = closeCount + 1
         /\ stopChClosed' = TRUE
         /\ panicked' = (panicked \/ stopChClosed)

Stop ==
    /\ stopCalls < MaxStopCalls
    /\ stopCalls' = stopCalls + 1
    /\ StopBody
    /\ UNCHANGED <<svcVars, mainVars, ctorVars, keyCalls, removed, startCalls, envVars, ctxDone, now, cronRunning, startPc, pass, objects>>

Next ==
    \/ \E p \in Passes : Backup(p)
    \/ \E p \in Passes : CollectNext(p)
    \/ \E p \in Passes : WalkStep(p)
    \/ \E p \in Passes : UploadNext(p)
    \/ \E p \in Passes : PutReturn(p)
    \/ \E p \in Passes : CronFire(p)
    \/ Cancel
    \/ Tick
    \/ Start
    \/ StartWake
    \/ StartReturn
    \/ Stop

Spec == Init /\ [][Next]_vars

\* A step of some running pass.
PassStep ==
    \E p \in Passes : CollectNext(p) \/ WalkStep(p) \/ UploadNext(p) \/ PutReturn(p)

\* The scheduling the runtime guarantees: while some goroutine of a pass can
\* take its next step one of them does (a call handed to the storage client
\* returns), and the goroutine of Start runs when it can.
Fairness ==
    /\ WF_vars(PassStep)
    /\ WF_vars(StartWake)
    /\ WF_vars(StartReturn)

\* The program in its scheduled mode (main calls Start and never Backup): the
\* passes are those the cron driver fires.  The clock is held: no step of
\* the scheduler reads it.
SchedNext ==
    \/ PassStep
    \/ \E p \in Passes : CronFire(p)
    \/ Cancel
    \/ Start
    \/ StartWake
    \/ StartReturn
    \/ Stop

SchedSpec == Init /\ [][SchedNext]_vars

FairSpec == SchedSpec /\ Fairness

\* The scheduled mode over several firings: the goroutine of a firing ends
\* when its job returns, and the driver fires the job again.
CronNext ==
    \/ SchedNext
    \/ \E p \in Passes : JobReturn(p)

CronSpec == Init /\ [][CronNext]_vars

(* ------------------------ Start called again -------------------------- *)
\* RestartBody, had Start made a new stop channel for every call.
RestartBodyFreshChannel ==
    /\ startPc \in {"returned", "failed"}
    /\ startCalls' = startCalls + 1
    /\ IF ParseOK(cronSchedule)
       THEN cronRunning' = TRUE /\ startPc' = "blocked"
       ELSE cronRunning' = cronRunning /\ startPc' = "failed"
    /\ stopChClosed' = FALSE
    /\ stopOnceDone' = FALSE

\* Service.Start up to its select, called after an earlier call has
\* returned: a new cron driver is made and started; stopCh and stopOnce are
\* those NewS3Service made, and nothing in Start assigns them.
RestartBody ==
    /\ startPc \in {"returned", "failed"}
    /\ startCalls' = startCalls + 1
    /\ IF ParseOK(cronSchedule)
       THEN cronRunning' = TRUE /\ startPc' = "blocked"
       ELSE cronRunning' = cronRunning /\ startPc' = "failed"
    /\ UNCHANGED <<stopChClosed, stopOnceDone>>

StartAgain ==
    /\ startCalls < MaxStarts
    /\ RestartBody
    /\ UNCHANGED <<svcVars, mainVars, ctorVars, keyCalls, removed, closeCount, panicked,
                   stopCalls, envVars, ctxDone, now, pass, objects>>

RestartNext ==
    \/ SchedNext
    \/ StartAgain

\* A Service on which Start is called again after it has returned.
RestartSpec == Init /\ [][RestartNext]_vars /\ Fairness

(* ------------------------- passes over trees --------------------------- *)
\* Target lists over the deeper tree, with a target listed twice, targets
\* nested in each other in both orders, two targets named a, and a target
\* holding a file whose name begins with two dots.
TargetLists ==
    {<<DirT>>, <<DirA, DirA>>, <<DirA, DirAS>>, <<DirAS, DirA>>, <<DirA, DirXA>>, <<DirD>>}

\* A Service built from a configuration listing one of TargetLists.
TreeInit ==
    /\ InitRuntime
    /\ backupDirs \in {d \in TargetLists : validateDirectories(d).err = <<>>}
    /\ recursive \in BOOLEAN
    /\ cfg = [isNil |-> FALSE, awsOK |-> TRUE, dirs |-> backupDirs, recursive |-> recursive]
    /\ newResult = [svc |-> "built", err |-> <<>>, stats |-> backupDirs]
    /\ cronSchedule = ValidSchedule
    /\ cfgCronSchedule = cronSchedule
    /\ mainPc = "none"
    /\ exitCode = "none"

\* Direct calls of Backup, with a live context and within one second.
TreeNext ==
    \/ \E p \in Passes : Backup(p)
    \/ PassStep

TreeSpec == TreeInit /\ [][TreeNext]_vars

(* ------------------------ targets that vanish -------------------------- *)
\* Somebody removes a configured directory, with all it holds, while the
\* Service lives.
RemoveDir ==
    /\ Cardinality(removed) < MaxRemovals
    /\ \E i \in 1..Len(backupDirs) :
          /\ backupDirs[i] \notin removed
          /\ removed' = removed \cup {backupDirs[i]}
    /\ UNCHANGED <<svcVars, mainVars, ctorVars, keyCalls, startCalls, stopVars, envVars, ctxDone, now,
                   cronRunning, startPc, pass, objects>>

\* A Service with a valid schedule.
RemovalInit ==
    /\ InitService
    /\ cronSchedule = ValidSchedule
    /\ cfgCronSchedule = cronSchedule
    /\ mainPc = "none"
    /\ exitCode = "none"

\* The scheduler fires passes over several firings while targets vanish; the
\* context stays live and nobody calls Stop.
RemovalNext ==
    \/ Start
    \/ \E p \in Passes : CronFire(p)
    \/ PassStep
    \/ \E p \in Passes : JobReturn(p)
    \/ RemoveDir

RemovalSpec == RemovalInit /\ [][RemovalNext]_vars

(* -------------------------- passes that overlap ------------------------ *)
\* Backup is called while earlier calls on the same Service are still
\* running (by another goroutine, or by the cron driver, which starts every
\* firing in a goroutine of its own).
ConcurrentBackup(p) ==
    /\ pass[p].pc = "idle"
    /\ \A q \in AllPasses : q < p => pass[q].pc # "idle"
    /\ BeginPass(p, "direct")
    /\ UNCHANGED <<svcVars, mainVars, ctorVars, keyCalls, removed, startCalls, stopVars, envVars, ctxDone,
                   now, cronRunning, startPc, objects>>

OverlapNext ==
    \/ \E p \in AllPasses : ConcurrentBackup(p)
    \/ \E p \in AllPasses : CollectNext(p)
    \/ \E p \in AllPasses : WalkStep(p)
    \/ \E p \in AllPasses : UploadNext(p)
    \/ \E p \in AllPasses : PutReturn(p)

OverlapSpec == RemovalInit /\ [][OverlapNext]_vars

(* ----------------------- collection on its own ------------------------- *)
\* Target lists of a Service built as a struct literal, as the tests of the
\* collector do: not validated, so with an empty path and a missing one.
LiteralLists == {<<DirC>>, <<<<>>>>, <<Missing>>, <<DirT, DirA>>}

CollectInit ==
    /\ InitRuntime
    /\ backupDirs \in LiteralLists
    /\ recursive \in BOOLEAN
    /\ cfg = [isNil |-> FALSE, awsOK |-> TRUE, dirs |-> backupDirs, recursive |-> recursive]
    /\ newResult = [svc |-> "built", err |-> <<>>, stats |-> <<>>]
    /\ cronSchedule = ValidSchedule
    /\ cfgCronSchedule = cronSchedule
    /\ mainPc = "none"
    /\ exitCode = "none"

\* Passes of such a Service, with a context that may be cancelled.
CollectNextStep ==
    \/ \E p \in Passes : Backup(p)
    \/ PassStep
    \/ Cancel

CollectSpec == CollectInit /\ [][CollectNextStep]_vars

(* --------------------------- key function ------------------------------ *)
\* File names handed to buildObjectKey: plain, with a path, climbing, with a
\* space, empty, and with a leading dot element.
KeyNames ==
    {<<"f">>, <<"a", "/", "f">>, <<".", ".", "/", "f">>, <<"a", " ", "f">>,
     <<>>, <<".", "/", "f">>}

\* Instants handed to buildObjectKey: two seconds around a change of minute,
\* each at its start and one nanosecond later.
KeyTimes == {[sec |-> s, nsec |-> n] : s \in {StartTime, StartTime + 1}, n \in {0, 1}}

KeyInit ==
    /\ InitRuntime
    /\ backupDirs = <<>>
    /\ recursive = FALSE
    /\ cronSchedule = ValidSchedule
    /\ cfgCronSchedule = cronSchedule
    /\ cfg = [isNil |-> FALSE, awsOK |-> TRUE, dirs |-> <<>>, recursive |-> FALSE]
    /\ newResult = [svc |-> "built", err |-> <<>>, stats |-> <<>>]
    /\ mainPc = "none"
    /\ exitCode = "none"

\* One call of buildObjectKey(fn, ts); keyCalls keeps the arguments and the
\* result of every call.
BuildKey ==
    /\ Len(keyCalls) < MaxKeyCalls
    /\ \E fn \in KeyNames, ts \in KeyTimes :
          keyCalls' = Append(keyCalls, [fn |-> fn, ts |-> ts, key |-> buildObjectKey(fn, ts)])
    /\ UNCHANGED <<svcVars, mainVars, ctorVars, removed, startCalls, stopVars, envVars, ctxDone, now,
                   cronRunning, startPc, pass, objects>>

KeyNext == BuildKey

KeySpec == KeyInit /\ [][KeyNext]_vars

(* ---------------------------- constructor ------------------------------ *)
\* The paths a configuration may list: the empty string, a directory, a
\* file, a missing path and one that cannot be examined.
CandidatePaths == {<<>>, DirA, FileAF, Missing, Denied}

RECURSIVE SeqsUpTo(_, _)
SeqsUpTo(S, n) ==
    IF n = 0 THEN {<<>>}
    ELSE LET shorter == SeqsUpTo(S, n - 1)
         IN shorter \cup {Append(q, x) : q \in {r \in shorter : Len(r) = n - 1}, x \in S}

\* The configurations handed to NewS3Service: nil, one whose AWS
\* configuration cannot be loaded, or one with a list of directories.
Configs ==
    {[isNil |-> TRUE, awsOK |-> TRUE, dirs |-> <<>>, recursive |-> FALSE],
     [isNil |-> FALSE, awsOK |-> FALSE, dirs |-> <<DirA>>, recursive |-> FALSE]}
    \cup {[isNil |-> FALSE, awsOK |-> TRUE, dirs |-> d, recursive |-> r] :
             d \in SeqsUpTo(CandidatePaths, MaxDirs), r \in BOOLEAN}

\* Before NewS3Service is called there is no Service.
NewInit ==
    /\ InitRuntime
    /\ cfg \in Configs
    /\ cfgCronSchedule \in {<<>>, ValidSchedule}
    /\ newResult = [svc |-> "unbuilt", err |-> <<>>, stats |-> <<>>]
    /\ backupDirs = <<>>
    /\ recursive = FALSE
    /\ cronSchedule = <<>>
    /\ mainPc = "none"
    /\ exitCode = "none"

\* NewS3Service(ctx, cfg): nil configuration, AWS configuration, then
\* validateDirectories; a Service only when all three pass.
NewS3Service ==
    LET v == validateDirectories(cfg.dirs)
        err == IF cfg.isNil THEN <<ErrLeaf("ErrNilConfig", <<>>)>>
               ELSE IF ~cfg.awsOK THEN <<ErrLeaf("AWSConfig", <<>>)>>
               ELSE v.err
    IN /\ newResult.svc = "unbuilt"
       /\ newResult' = [svc |-> IF err = <<>> THEN "built" ELSE "nil",
                        err |-> err,
                        stats |-> IF cfg.isNil \/ ~cfg.awsOK THEN <<>> ELSE v.stats]
       /\ IF err = <<>>
          THEN /\ backupDirs' = cfg.dirs
               /\ recursive' = cfg.recursive
               /\ cronSchedule' = GetCronSchedule(cfgCronSchedule)
          ELSE UNCHANGED svcVars
       /\ UNCHANGED <<mainVars, cfg, keyCalls, removed, startCalls, stopVars, envVars, ctxDone, now, cronRunning, startPc, pass, objects>>

NewNext == NewS3Service

NewSpec == NewInit /\ [][NewNext]_vars

(* ------------------------------- main ---------------------------------- *)
\* What the configuration can hold as schedule: nothing, or an expression.
ConfiguredSchedules == {<<>>, ValidSchedule} \cup InvalidSchedules

\* main after config.NewConfig and NewS3Service have succeeded.
MainInit ==
    /\ InitService
    /\ cfgCronSchedule \in ConfiguredSchedules
    /\ cronSchedule = GetCronSchedule(cfgCronSchedule)
    /\ mainPc = "dispatch"
    /\ exitCode = "none"

\* main chooses its mode and makes the call: Start when GetCronSchedule is
\* not empty, one Backup otherwise.  Its context is context.Background().
MainDispatch ==
    /\ mainPc = "dispatch"
    /\ mainPc' = "called"
    /\ IF GetCronSchedule(cfgCronSchedule) # <<>>
       THEN StartBody /\ pass' = pass
       ELSE BeginPass(1, "direct") /\ UNCHANGED <<cronRunning, startPc, startCalls>>
    /\ UNCHANGED <<svcVars, ctorVars, keyCalls, removed, stopVars, envVars, ctxDone, now, objects, cfgCronSchedule, exitCode>>

\* The call of main has returned: os.Exit(1) on an error, the end of main on
\* nil.
MainExit ==
    /\ mainPc = "called"
    /\ \/ startPc \in {"failed", "returned"}
       \/ \E p \in Passes : pass[p].origin = "direct" /\ pass[p].pc = "done"
    /\ mainPc' = "exited"
    /\ exitCode' = IF \/ startPc = "failed"
                      \/ \E p \in Passes : /\ pass[p].origin = "direct"
                                            /\ pass[p].pc = "done"
                                            /\ pass[p].result # <<>>
                   THEN "failure" ELSE "success"
    /\ UNCHANGED <<svcVars, ctorVars, keyCalls, removed, startCalls, stopVars, envVars, ctxDone, now, cronRunning, startPc, pass, objects, cfgCronSchedule>>

\* The process receives SIGINT or SIGTERM while main is in its call.  main
\* registers no handler and its context cannot be cancelled, so the Go
\* runtime ends the process at once: no goroutine takes another step.
Signal ==
    /\ mainPc = "called"
    /\ mainPc' = "exited"
    /\ exitCode' = "signal"
    /\ UNCHANGED <<svcVars, ctorVars, keyCalls, removed, startCalls, stopVars, envVars, ctxDone, now, cronRunning, startPc, pass, objects, cfgCronSchedule>>

\* The goroutines of the process run while it has not exited.  Nothing in
\* main calls Stop or cancels the context, so Start stays in its select.
MainNext ==
    \/ MainDispatch
    \/ MainExit
    \/ Signal
    \/ mainPc = "called" /\ PassStep
    \/ \E p \in Passes : mainPc = "called" /\ CronFire(p)

MainSpec == MainInit /\ [][MainNext]_vars

(* ------------------------------ claims --------------------------------- *)
\* The keys pass p has handed to PutObject so far, in order.
KeysHanded(p) ==
    LET done == SelectSeq(pass[p].log, LAMBDA a : a.key # <<>>)
    IN [i \in 1..Len(done) |-> done[i].key]
       \o (IF pass[p].pc = "put" THEN <<pass[p].inflight>> ELSE <<>>)

TimestampOf(key) == SubSeq(key, 1, TimestampLen)

Attempted(p, f) == \E i \in 1..Len(pass[p].log) : pass[p].log[i].file = f

FailedAttempts(p) == {i \in 1..Len(pass[p].log) : pass[p].log[i].res # "ok"}

\* The upload loop of pass p ran to its end without seeing a cancellation.
UploadRanToEnd(p) ==
    /\ pass[p].pc = "done"
    /\ pass[p].collErrs = <<>>
    /\ pass[p].allFiles # <<>>
    /\ ~ErrIs(pass[p].result, "Canceled")

\* C1: all the keys one pass hands to PutObject carry the same timestamp
\* segment, however much time elapses between the uploads.
C1_OneTimestampPerPass ==
    \A p \in Passes :
        \A i, j \in 1..Len(KeysHanded(p)) :
            TimestampOf(KeysHanded(p)[i]) = TimestampOf(KeysHanded(p)[j])

\* C2: when some directories fail to collect and others succeed, the pass
\* still attempts every file collected from the healthy directories, and the
\* returned error carries the failing directory's error.
C2_HealthyDirsUploaded ==
    \A p \in Passes :
        (/\ pass[p].pc = "done"
         /\ pass[p].collErrs # <<>>
         /\ ~ErrIs(pass[p].result, "Canceled"))
        => /\ \A i \in 1..Len(pass[p].allFiles) : Attempted(p, pass[p].allFiles[i])
           /\ \A i \in 1..Len(pass[p].collErrs) :
                 \E j \in 1..Len(pass[p].result) : pass[p].result[j] = pass[p].collErrs[i]

\* C3: without cancellation the upload phase attempts every collected file
\* exactly once, in order, whatever happened to the earlier files; the files
\* that did not fail are stored, and the returned aggregate holds exactly one
\* failure per failed file, each found by its identity.
C3_EveryFileAttemptedOnce ==
    \A p \in Passes :
        /\ pass[p].pc \in {"upload", "put", "done"} =>
              /\ Len(pass[p].log) <= Len(pass[p].allFiles)
              /\ \A i \in 1..Len(pass[p].log) : pass[p].log[i].file = pass[p].allFiles[i]
        /\ UploadRanToEnd(p) =>
              /\ Len(pass[p].log) = Len(pass[p].allFiles)
              /\ \A i \in 1..Len(pass[p].log) :
                    pass[p].log[i].res = "ok" => pass[p].log[i].key \in DOMAIN objects
              /\ ErrCount(pass[p].result) = Cardinality(FailedAttempts(p))
              /\ \A i \in FailedAttempts(p) :
                    \E j \in 1..Len(pass[p].result) :
                        /\ pass[p].result[j].subject = pass[p].log[i].file
                        /\ pass[p].result[j].kind \in
                              {"ErrEmptyFilename", "ErrNotExist", "ErrPermission",
                               "NoBackupDir", "PutFailed"}

C3_Witness ==
    \E p \in Passes :
        /\ UploadRanToEnd(p)
        /\ Len(pass[p].allFiles) >= 3
        /\ Cardinality(FailedAttempts(p)) = 2
        /\ \E i \in 1..Len(pass[p].log) :
              /\ pass[p].log[i].res = "ok"
              /\ \E j \in FailedAttempts(p) : j < i

\* A collected file whose upload fails: it cannot be opened or the storage
\* client rejects it.
UploadWouldFail(f) == f \in unopenable \cup rejected

\* C4: Backup returns nil exactly when every directory was collected without
\* error and every collected file was put; and when a directory fails to
\* collect and a collected file fails to upload, the returned error carries
\* the failures of both phases.
C4_NilIffAllSucceededAndBothJoined ==
    \A p \in Passes :
        pass[p].pc = "done" =>
            /\ (pass[p].result = <<>>) <=>
                  (/\ pass[p].collErrs = <<>>
                   /\ pass[p].dirIdx > Len(backupDirs)
                   /\ Len(pass[p].log) = Len(pass[p].allFiles)
                   /\ FailedAttempts(p) = {})
            /\ (/\ pass[p].collErrs # <<>>
                /\ ~ErrIs(pass[p].result, "Canceled")
                /\ \E i \in 1..Len(pass[p].allFiles) : UploadWouldFail(pass[p].allFiles[i]))
               => /\ \A i \in 1..Len(pass[p].collErrs) :
                        \E j \in 1..Len(pass[p].result) : pass[p].result[j] = pass[p].collErrs[i]
                  /\ \A i \in 1..Len(pass[p].allFiles) :
                        UploadWouldFail(pass[p].allFiles[i]) =>
                           \E j \in 1..Len(pass[p].result) :
                               pass[p].result[j].subject = pass[p].allFiles[i]

\* A pass that began with the context already cancelled did nothing: it
\* walked no directory, opened no file and called PutObject for none.
NoWorkDone(p) ==
    /\ pass[p].pc \in {"collect", "done"}
    /\ pass[p].stack = <<>>
    /\ pass[p].allFiles = <<>>
    /\ pass[p].log = <<>>
    /\ pass[p].inflight = <<>>

\* C5 as stated: a pass that begins with the context already cancelled does
\* no work and returns the cancellation, for every configuration.
C5_CancelledBeforeStart ==
    \A p \in Passes :
        pass[p].cancelAtBegin =>
            /\ NoWorkDone(p)
            /\ pass[p].pc = "done" => ErrIs(pass[p].result, "Canceled")

\* C5 amended: a pass that begins with the context already cancelled does no
\* work; it returns the cancellation when at least one directory is
\* configured, and nil when none is.
C5_CancelledBeforeStartAmended ==
    \A p \in Passes :
        pass[p].cancelAtBegin =>
            /\ NoWorkDone(p)
            /\ pass[p].pc = "done" =>
                  IF Len(backupDirs) >= 1
                  THEN ErrIs(pass[p].result, "Canceled")
                  ELSE pass[p].result = <<>>

C5_Witness ==
    \E p \in Passes :
        /\ pass[p].cancelAtBegin
        /\ pass[p].pc = "done"
        /\ Len(backupDirs) >= 1
        /\ ErrIs(pass[p].result, "Canceled")

\* C6: once the context is cancelled, the next step of a pass that is between
\* two files returns the cancellation without opening or putting another
\* file, and no step ever removes an object from the bucket.
C6_CancelStopsNewUploads ==
    [][/\ \A p \in Passes :
             (ctxDone /\ pass[p].pc = "upload" /\ pass'[p] # pass[p]) =>
                 /\ pass'[p].pc = "done"
                 /\ ErrIs(pass'[p].result, "Canceled")
                 /\ pass'[p].log = pass[p].log
                 /\ pass'[p].inflight = <<>>
       /\ \A k \in DOMAIN objects : k \in DOMAIN objects']_vars

C6_Witness ==
    \E p \in Passes :
        /\ pass[p].pc = "done"
        /\ pass[p].result = <<Canceled>>
        /\ Len(pass[p].log) >= 1
        /\ Len(pass[p].log) < Len(pass[p].allFiles)
        /\ \E i \in 1..Len(pass[p].log) :
              /\ pass[p].log[i].res = "ok"
              /\ pass[p].log[i].key \in DOMAIN objects

\* C7: a PutObject in flight when the context is cancelled is never
\* interrupted: no upload ends with the context's error.
C7_InFlightPutNotInterrupted ==
    \A p \in Passes :
        \A i \in 1..Len(pass[p].log) : pass[p].log[i].res # "aborted"

\* C8: with an invalid schedule Start returns its error without starting the
\* cron driver, and no pass is ever run by the scheduler.
C8_InvalidScheduleNeverRuns ==
    /\ startPc = "failed" => cronSchedule \in InvalidSchedules
    /\ cronSchedule \in InvalidSchedules =>
          /\ startPc \in {"idle", "failed"}
          /\ ~cronRunning
          /\ \A p \in Passes : pass[p].origin # "cron"

C8_Witness == startPc = "failed" /\ \A p \in Passes : pass[p].pc = "done"

\* C9: once Start is running and the stop channel is closed, Start eventually
\* returns nil, and it has not returned while a pass fired by the cron driver
\* is still in progress.
C9_StopDrainsThenReturns ==
    /\ [](startPc = "returned" =>
            \A p \in Passes : pass[p].origin = "cron" => pass[p].pc = "done")
    /\ ((startPc = "blocked" /\ stopChClosed) ~> (startPc = "returned"))

C9_Witness ==
    /\ startPc = "draining"
    /\ stopChClosed
    /\ ~ctxDone
    /\ \E p \in Passes : pass[p].origin = "cron" /\ pass[p].pc = "put"

\* C10: however many times Stop is called, nothing panics and the stop
\* channel is closed exactly once.
C10_StopIdempotent ==
    /\ ~panicked
    /\ closeCount <= 1
    /\ stopCalls >= 1 => (closeCount = 1 /\ stopChClosed)
    /\ stopCalls = 0 => (closeCount = 0 /\ ~stopChClosed)

C10_Witness == stopCalls >= 2 /\ closeCount = 1 /\ startPc = "returned"

\* C11: Start, once running, has returned only after the stop channel was
\* closed or the context was cancelled, with nil and with every pass of the
\* cron driver finished; and a cancelled context alone makes a running Start
\* eventually return.
C11_StartReturnsOnStopOrCancel ==
    /\ [](startPc = "returned" =>
            /\ stopChClosed \/ ctxDone
            /\ StartResult = <<>>
            /\ ~cronRunning
            /\ \A p \in Passes : pass[p].pc \in {"idle", "done"})
    /\ [](startPc = "blocked" => StartResult = "none")
    /\ ((startPc = "blocked" /\ ctxDone) ~> (startPc = "returned"))

C11_Witness ==
    /\ startPc = "returned"
    /\ ctxDone
    /\ stopCalls = 0
    /\ \E p \in Passes :
          pass[p].origin = "cron" /\ pass[p].pc = "done" /\ Len(pass[p].log) >= 1

\* C12: a pass fired by the cron driver that ends with an error changes
\* neither the driver nor Start; the job only logs the error; while the
\* driver runs and the context is live the next firing begins a pass; and
\* what Start returns is nil, whatever the passes returned.
C12_FailedPassOnlyLogged ==
    /\ [][\A p \in Passes :
             (/\ pass[p].origin = "cron"
              /\ pass'[p] # pass[p]
              /\ \/ pass'[p].pc = "done" /\ pass'[p].result # <<>>
                 \/ pass[p].pc = "done" /\ pass[p].result # <<>>)
             => /\ cronRunning' = cronRunning
                /\ startPc' = startPc
                /\ pass[p].pc = "done" =>
                      /\ pass'[p].pc = "idle"
                      /\ pass'[p].jobLog = Append(pass[p].jobLog, pass[p].result)]_vars
    /\ []((cronRunning /\ ~ctxDone /\ \E p \in Passes : pass[p].pc = "idle")
            => \E p \in Passes : ENABLED (CronFire(p) /\ pass'[p].pc # "idle"))
    /\ [](startPc = "returned" => StartResult = <<>>)

C12_Witness ==
    /\ startPc = "returned"
    /\ \E p \in Passes :
          /\ Len(pass[p].jobLog) >= 1
          /\ pass[p].jobLog[1] # <<>>
          /\ ~ErrIs(pass[p].jobLog[1], "Canceled")
          /\ pass[p].origin = "cron"
          /\ pass[p].pc = "done"
          /\ Len(pass[p].log) >= 1

\* C13: with an empty or absent schedule main runs exactly one pass by a
\* direct call of Backup and never starts the scheduler; with a non-empty
\* schedule it calls Start and never Backup.
C13_EmptyScheduleRunsOnce ==
    mainPc = "called" =>
        IF cfgCronSchedule = <<>>
        THEN /\ startPc = "idle"
             /\ ~cronRunning
             /\ Cardinality({p \in Passes : pass[p].origin = "direct"}) = 1
             /\ \A p \in Passes : pass[p].origin # "cron"
        ELSE /\ startPc # "idle"
             /\ \A p \in Passes : pass[p].origin # "direct"

\* C14: the process ends with failure after a one-time pass that returned an
\* error and after a Start that failed, and a process whose scheduler was
\* running when it ended was stopped cleanly: Start had returned and the exit
\* status is success.
C14_ExitStatus ==
    mainPc = "exited" =>
        /\ (\E p \in Passes : /\ pass[p].origin = "direct"
                               /\ pass[p].pc = "done"
                               /\ pass[p].result # <<>>) => exitCode = "failure"
        /\ startPc = "failed" => exitCode = "failure"
        /\ startPc \notin {"idle", "failed"} =>
              /\ startPc = "returned"
              /\ exitCode = "success"

\* C15: a pass that went through every configured directory without a
\* collection error and without cancellation and collected no file returns
\* nil, and it has handed nothing to PutObject.
C15_NoFilesIsSuccess ==
    \A p \in Passes :
        (/\ pass[p].pc = "done"
         /\ pass[p].dirIdx > Len(backupDirs)
         /\ pass[p].allFiles = <<>>
         /\ pass[p].collErrs = <<>>)
        => /\ pass[p].result = <<>>
           /\ pass[p].log = <<>>
           /\ pass[p].inflight = <<>>
           /\ KeysHanded(p) = <<>>

C15_Witness ==
    \E p \in Passes :
        /\ backupDirs = <<DirC>>
        /\ pass[p].pc = "done"
        /\ pass[p].dirIdx > Len(backupDirs)
        /\ pass[p].result = <<>>
        /\ ~ctxDone
        /\ objects = <<>>

\* What is wrong with a path as a backup target, "" when nothing is.
ViolationKind(path) ==
    IF path = <<>> THEN "ErrEmptyDirectory"
    ELSE IF path = Denied THEN "ErrPermission"
    ELSE IF path \notin Dirs \cup Files THEN "ErrDirectoryNotFound"
    ELSE IF path \notin Dirs THEN "ErrNotADirectory"
    ELSE ""

\* The index of the first violating path of dirs, 0 when there is none.
FirstViolation(dirs) ==
    LET bad == {i \in 1..Len(dirs) : ViolationKind(dirs[i]) # ""}
    IN IF bad = {} THEN 0 ELSE CHOOSE i \in bad : \A j \in bad : i <= j

\* C16: NewS3Service returns a nil Service with ErrNilConfig for a nil
\* configuration; otherwise with the error of the first violating path of
\* the list, of the kind of that path, having examined no later path; and a
\* Service, with nil, only when every path is an existing directory.
C16_FailsOnFirstViolation ==
    newResult.svc # "unbuilt" =>
        /\ (newResult.svc = "nil") <=> (newResult.err # <<>>)
        /\ cfg.isNil => newResult.err = <<ErrLeaf("ErrNilConfig", <<>>)>>
        /\ (~cfg.isNil /\ cfg.awsOK) =>
              LET i == FirstViolation(cfg.dirs)
              IN IF i = 0
                 THEN /\ newResult.svc = "built"
                      /\ backupDirs = cfg.dirs
                 ELSE /\ newResult.svc = "nil"
                      /\ newResult.err = <<ErrLeaf(ViolationKind(cfg.dirs[i]), cfg.dirs[i])>>
                      /\ newResult.stats =
                            SubSeq(cfg.dirs, 1, IF cfg.dirs[i] = <<>> THEN i - 1 ELSE i)
        /\ newResult.svc = "built" =>
              \A i \in 1..Len(backupDirs) :
                  backupDirs[i] # <<>> /\ backupDirs[i] \in Dirs

C16_Witness ==
    /\ cfg.dirs = <<FileAF, Missing>>
    /\ newResult.svc = "nil"
    /\ ErrIs(newResult.err, "ErrNotADirectory")
    /\ newResult.stats = <<FileAF>>

FilesBelow(dir) == {f \in Files : Below(dir, f)}

DirectFiles(dir) ==
    {f \in FilesBelow(dir) : Len(Components(f)) = Len(Components(dir)) + 1}

\* The step of pass p is the return of collectFilesFromDir without error.
DirCollectedStep(p) ==
    /\ pass[p].pc = "walk"
    /\ pass'[p].pc # "walk"
    /\ pass'[p].collErrs = pass[p].collErrs

\* What the step of pass p appended to the list of collected files.
AppendedFiles(p) ==
    SubSeq(pass'[p].allFiles, Len(pass[p].allFiles) + 1, Len(pass'[p].allFiles))

\* C17: the collection of one root directory returns, each once, exactly its
\* direct regular files when recursion is off and exactly the regular files
\* at every depth below it when recursion is on; never a directory.
C17_CollectsExactlyTheFiles ==
    [][\A p \in Passes :
          DirCollectedStep(p) =>
              LET root == backupDirs[pass[p].dirIdx]
                  got == AppendedFiles(p)
                  want == IF recursive THEN FilesBelow(root) ELSE DirectFiles(root)
              IN /\ {got[i] : i \in 1..Len(got)} = want
                 /\ Len(got) = Cardinality(want)
                 /\ \A i \in 1..Len(got) : got[i] \notin Dirs]_vars

C17_Witness ==
    \E p \in Passes :
        /\ backupDirs = <<DirT>>
        /\ pass[p].pc = "done"
        /\ pass[p].collErrs = <<>>
        /\ \/ ~recursive /\ Len(pass[p].allFiles) = 2
           \/ recursive /\ Len(pass[p].allFiles) = 4

\* C18: the list collectAllFiles hands to the upload phase holds no local
\* file twice, whatever the list of configured targets.
C18_NoFileCollectedTwice ==
    \A p \in Passes :
        \A i, j \in 1..Len(pass[p].allFiles) :
            i # j => pass[p].allFiles[i] # pass[p].allFiles[j]

\* C19: every key handed to PutObject is timestamp/baseName/relativePath,
\* with baseName the last element of the target whose walk found the file
\* and relativePath the path of the file relative to that target.
C19_KeyFromDiscoveryTarget ==
    \A p \in Passes :
        \A i \in 1..Len(pass[p].log) :
            pass[p].log[i].key # <<>> =>
                LET key == pass[p].log[i].key
                    root == pass[p].roots[i]
                IN /\ Len(key) > TimestampLen + 1
                   /\ key[TimestampLen + 1] = Slash
                   /\ SubSeq(key, TimestampLen + 2, Len(key))
                         = Base(root) \o <<Slash>> \o Rel(root, pass[p].log[i].file)

\* C20: two distinct local files of one pass never get the same key.
C20_KeysUniqueInPass ==
    \A p \in Passes :
        \A i, j \in 1..Len(pass[p].log) :
            (/\ pass[p].log[i].key # <<>>
             /\ pass[p].log[j].key # <<>>
             /\ pass[p].log[i].file # pass[p].log[j].file)
            => pass[p].log[i].key # pass[p].log[j].key

\* The number a decimal digit stands for, -1 for any other character.
DigitVal(ch) ==
    IF \E n \in 0..9 : Digit(n) = ch THEN CHOOSE n \in 0..9 : Digit(n) = ch ELSE -1

TwoDigitVal(key, i) ==
    IF DigitVal(key[i]) < 0 \/ DigitVal(key[i + 1]) < 0 THEN -1
    ELSE 10 * DigitVal(key[i]) + DigitVal(key[i + 1])

\* C21: every key buildObjectKey returns is the instant written as
\* YYYY-MM-DDTHH-MM-SS in nineteen characters without a colon, then "/", then
\* the name unchanged; and equal arguments give equal keys.
C21_KeyIsTimestampSlashName ==
    /\ \A i \in 1..Len(keyCalls) :
          LET c == keyCalls[i]
              sec == c.ts.sec % 86400
          IN /\ Len(c.key) = TimestampLen + 1 + Len(c.fn)
             /\ SubSeq(c.key, TimestampLen + 2, Len(c.key)) = c.fn
             /\ c.key[TimestampLen + 1] = Slash
             /\ \A k \in 1..TimestampLen : c.key[k] \notin {":", Slash}
             /\ SubSeq(c.key, 1, 8) = <<"2", "0", "2", "5", "-", "0", "1", "-">>
             /\ TwoDigitVal(c.key, 9) = (c.ts.sec \div 86400) + 1
             /\ c.key[11] = "T"
             /\ TwoDigitVal(c.key, 12) = sec \div 3600
             /\ c.key[14] = "-"
             /\ TwoDigitVal(c.key, 15) = (sec \div 60) % 60
             /\ c.key[17] = "-"
             /\ TwoDigitVal(c.key, 18) = sec % 60
    /\ \A i, j \in 1..Len(keyCalls) :
          (keyCalls[i].fn = keyCalls[j].fn /\ keyCalls[i].ts = keyCalls[j].ts)
          => keyCalls[i].key = keyCalls[j].key

C21_Witness ==
    /\ Len(keyCalls) = 2
    /\ keyCalls[1].fn = <<".", ".", "/", "f">>
    /\ keyCalls[1].ts.sec = StartTime + 1
    /\ keyCalls[2] = keyCalls[1]

\* C22 as stated: two calls give the same key exactly when their instants
\* and their names are equal.
C22_KeyInjective ==
    \A i, j \in 1..Len(keyCalls) :
        (keyCalls[i].key = keyCalls[j].key)
        <=> (keyCalls[i].ts = keyCalls[j].ts /\ keyCalls[i].fn = keyCalls[j].fn)

\* C22 amended: two calls give the same key exactly when their names are
\* equal and their instants fall in the same second.
C22_KeyInjectiveToTheSecond ==
    \A i, j \in 1..Len(keyCalls) :
        (keyCalls[i].key = keyCalls[j].key)
        <=> (keyCalls[i].ts.sec = keyCalls[j].ts.sec /\ keyCalls[i].fn = keyCalls[j].fn)

C22_Witness ==
    /\ Len(keyCalls) = 2
    /\ keyCalls[1].fn = keyCalls[2].fn
    /\ keyCalls[1].ts.sec = keyCalls[2].ts.sec
    /\ keyCalls[1].ts.nsec # keyCalls[2].ts.nsec
    /\ keyCalls[1].key = keyCalls[2].key

\* C23: collectFilesFromDir returns an empty list that is not nil, and no
\* error, for an existing empty directory in both modes; ErrEmptyDirectory
\* for the empty path without calling WalkDir; and for a missing root an
\* error that is os.ErrNotExist and is not ErrEmptyDirectory.
C23_EmptyDirEmptyPathMissingRoot ==
    \A p \in Passes :
        \A i \in 1..Len(pass[p].dirResults) :
            LET d == pass[p].dirResults[i]
            IN /\ (d.dir = DirC /\ ~ErrIs(d.err, "Canceled")) =>
                     (d.err = <<>> /\ d.files = <<>> /\ ~d.isNil)
               /\ d.dir = <<>> =>
                     (ErrIs(d.err, "ErrEmptyDirectory") /\ ~d.walked /\ d.isNil)
               /\ (d.dir = Missing /\ ~ErrIs(d.err, "Canceled")) =>
                     /\ ErrIs(d.err, "ErrNotExist")
                     /\ ~ErrIs(d.err, "ErrEmptyDirectory")
                     /\ d.isNil

C23_Witness ==
    \E p \in Passes :
        /\ backupDirs = <<DirC>>
        /\ recursive
        /\ Len(pass[p].dirResults) = 1
        /\ pass[p].dirResults[1].err = <<>>
        /\ pass[p].dirResults[1].files = <<>>

\* C24: no step of a pass or of the scheduler runs the validator again or
\* changes the targets.  A pass that began after a target was removed ends
\* its collection with the failure of the walk of that target (not found by
\* the walk, never the validator's ErrDirectoryNotFound) and has collected
\* every target that is still there; and the driver can fire again.
C24_RemovedTargetFailsInCollection ==
    /\ [][newResult' = newResult /\ backupDirs' = backupDirs]_vars
    /\ [](\A p \in Passes :
            /\ ~ErrIs(pass[p].collErrs, "ErrDirectoryNotFound")
            /\ \A k \in 1..Len(pass[p].jobLog) :
                  ~ErrIs(pass[p].jobLog[k], "ErrDirectoryNotFound")
            /\ pass[p].pc \in {"upload", "put", "done"} =>
                  /\ Len(pass[p].dirResults) = Len(backupDirs)
                  /\ \A i \in 1..Len(pass[p].dirResults) :
                        LET d == pass[p].dirResults[i]
                        IN /\ d.dir = backupDirs[i]
                           /\ d.dir \in pass[p].removedAtBegin =>
                                 d.err = <<ErrLeaf("ErrNotExist", d.dir)>>
                           /\ (d.dir \notin removed /\ d.dir \notin unreadable) =>
                                 /\ d.err = <<>>
                                 /\ {d.files[k] : k \in 1..Len(d.files)} =
                                       IF recursive THEN FilesBelow(d.dir)
                                       ELSE DirectFiles(d.dir))
    /\ []((cronRunning /\ removed # {} /\ \E p \in Passes : pass[p].pc = "idle")
            => \E p \in Passes : ENABLED (CronFire(p) /\ pass'[p].pc # "idle"))

C24_Witness ==
    \E p \in Passes :
        /\ backupDirs = <<DirA, DirB>>
        /\ removed = {DirA}
        /\ Len(pass[p].jobLog) >= 1
        /\ ErrIs(pass[p].jobLog[1], "ErrNotExist")
        /\ pass[p].origin = "cron"
        /\ pass[p].pc = "done"
        /\ Len(pass[p].dirResults) = 2
        /\ pass[p].dirResults[1].err = <<ErrLeaf("ErrNotExist", DirA)>>
        /\ pass[p].dirResults[2].files = <<FileBF>>

\* C25: with the context cancelled, the next call of walk adds no file and
\* descends nowhere: collectFilesFromDir returns a nil list and the
\* cancellation, whatever files the collector held; and collectAllFiles,
\* seeing the cancellation at the head of its loop, returns no file and the
\* cancellation.
C25_CancelledWalkReturnsNoFiles ==
    [][\A p \in Passes :
          /\ (ctxDone /\ pass[p].pc = "walk" /\ pass'[p] # pass[p]) =>
                /\ Len(pass'[p].dirResults) = Len(pass[p].dirResults) + 1
                /\ LET d == pass'[p].dirResults[Len(pass'[p].dirResults)]
                   IN /\ d.isNil
                      /\ d.files = <<>>
                      /\ d.err = <<Canceled>>
                      /\ d.seen = Len(pass[p].cfiles)
                /\ pass'[p].allFiles = pass[p].allFiles
                /\ ErrIs(pass'[p].collErrs, "Canceled")
          /\ (ctxDone /\ pass[p].pc = "collect" /\ pass'[p] # pass[p]) =>
                /\ pass'[p].pc = "done"
                /\ pass'[p].allFiles = <<>>
                /\ pass'[p].result = <<Canceled>>
                /\ pass'[p].dirResults = pass[p].dirResults]_vars

C25_Witness ==
    \E p \in Passes :
        /\ backupDirs = <<DirT, DirA>>
        /\ pass[p].pc = "done"
        /\ pass[p].result = <<Canceled>>
        /\ pass[p].allFiles = <<>>
        /\ Len(pass[p].dirResults) = 1
        /\ pass[p].dirResults[1].err = <<Canceled>>
        /\ pass[p].dirResults[1].seen >= 1
        /\ pass[p].dirResults[1].isNil

\* C26: no step changes the targets, the recursion flag or the schedule of
\* the Service; a step of one pass leaves every other pass as it was; and
\* what a pass holds is its own: the files of its own collection calls, one
\* attempt per file so far, and in its aggregate one failure per failed
\* attempt of its own.
C26_PassesShareNothing ==
    /\ [][/\ svcVars' = svcVars
          /\ \A p, q \in AllPasses :
                (p # q /\ pass'[p] # pass[p]) => pass'[q] = pass[q]]_vars
    /\ [](\A p \in AllPasses :
            /\ Len(pass[p].upErrs) = Cardinality(FailedAttempts(p))
            /\ \A j \in 1..Len(pass[p].upErrs) :
                  \E i \in FailedAttempts(p) :
                      pass[p].log[i].file = pass[p].upErrs[j].subject
            /\ Len(pass[p].log) <= Len(pass[p].allFiles)
            /\ UploadRanToEnd(p) => pass[p].result = pass[p].upErrs
            /\ pass[p].pc \in {"upload", "put", "done"} =>
                  /\ Len(pass[p].dirResults) <= Len(backupDirs)
                  /\ \A i \in 1..Len(pass[p].allFiles) :
                        \E k \in 1..Len(pass[p].dirResults) :
                            \E m \in 1..Len(pass[p].dirResults[k].files) :
                                pass[p].dirResults[k].files[m] = pass[p].allFiles[i])

C26_Witness ==
    \E p, q \in AllPasses :
        /\ p # q
        /\ pass[p].pc = "put"
        /\ pass[q].pc = "done"
        /\ Cardinality(FailedAttempts(p)) = 1
        /\ Cardinality(FailedAttempts(q)) = 2
        /\ Len(pass[q].result) = 2

\* C27: the stop channel, once closed, stays closed; a call of Start with
\* a valid schedule that finds it closed has its select ready at once, gets
\* to its return, and returns nil, however often Start is called.
C27_StoppedServiceStaysStopped ==
    /\ [][stopChClosed => stopChClosed']_vars
    /\ [](stopChClosed /\ startPc = "blocked" => ENABLED StartWake)
    /\ (stopChClosed /\ startPc = "blocked") ~> (startPc = "returned")
    /\ [](startPc = "returned" => StartResult = <<>>)

C27_Witness ==
    /\ stopChClosed
    /\ startCalls = 2
    /\ startPc = "returned"
    /\ ~ctxDone

\* C28: when Start has returned the cron driver is stopped and no pass it
\* fired is in progress; from then on no pass of the cron driver begins or
\* takes a step; and a firing that comes after the cancellation of the
\* context begins no pass, so it collects nothing and puts no object.
C28_NothingRunsAfterStartReturned ==
    /\ [](startPc = "returned" =>
            /\ ~cronRunning
            /\ \A p \in Passes : pass[p].origin = "cron" => pass[p].pc = "done")
    /\ [][startPc = "returned" =>
            \A p \in Passes : pass'[p].origin = "cron" => pass'[p] = pass[p]]_vars
    /\ [][ctxDone =>
            \A p \in Passes : pass[p].origin # "cron" => pass'[p].origin # "cron"]_vars
    /\ [](\A p \in Passes : pass[p].origin = "cron" => ~pass[p].cancelAtBegin)

C28_Witness ==
    /\ startPc = "returned"
    /\ ctxDone
    /\ ~stopChClosed
    /\ \E p \in Passes :
          /\ pass[p].origin = "cron"
          /\ pass[p].pc = "done"
          /\ ErrIs(pass[p].result, "Canceled")
          /\ Len(pass[p].log) >= 1

C30_DiscoveredFilesGetAKey ==
    \A p \in Passes :
        \A i \in 1..Len(pass[p].log) :
            (\E k \in 1..Len(backupDirs) : Below(backupDirs[k], pass[p].log[i].file))
            => pass[p].log[i].res # "no_key"

====
